---- MODULE Spec2Model ----
(***************************************************************************)
(* Carbon SDK CLI (src/index.ts): one process run dispatches one command   *)
(* to its handler.  The model follows each handler statement by statement  *)
(* between its awaits; every external call (SDK, RPC, wallet) either       *)
(* succeeds or throws.                                                     *)
(***************************************************************************)
EXTENDS Integers, Sequences, FiniteSets, TLC

\* ---------------------------------------------------------------- bounds
MaxPairs == 2      \* longest list returned by api.reader.pairs()
MaxLogs == 2       \* longest receipt.logs
NumTokens == 2     \* distinct token addresses

\* ---------------------------------------------------------------- values
\* JavaScript values: undefined, strings, and members of an imported enum.
Undefined == [t |-> "undefined", v |-> ""]
Str(s) == [t |-> "string", v |-> s]
EnumMember(n) == [t |-> "enum", v |-> n]
None == [t |-> "none", v |-> ""]

\* JavaScript truthiness of a string-or-undefined value
Truthy(x) == x.t # "undefined" /\ ~(x.t = "string" /\ x.v = "")

TIMELOCK_ADDRESS == "0x4b339A63be892204081AdCd02ac980FA71400e01"
GOVERNOR_ADDRESS == "0x0395FA5e53e2a9C9528539360324Da422708aCbD"
VOUCHER_ADDRESS == "0x907F03ae649581EBFF369a21C587cb8F154A0B84"
CARBON_CONTROLLER == "0xfbF069Dbbf453C1ab23042083CFa980B3a672BbA"
GAS_LIMIT == 1000000

\* ---------------------------------------------------------------- inputs
Commands == {"init", "get-pair-info", "get-cached-pairs", "update-strategy",
             "propose-update-strategy", "transfer-strategy"}
SigningCommands == {"update-strategy", "propose-update-strategy", "transfer-strategy"}

Tokens == 1..NumTokens
StrategyIds == {"12345", "7"}

UpdateFields == {"buyPriceLow", "buyPriceHigh", "buyBudget",
                 "sellPriceLow", "sellPriceHigh", "sellBudget"}
MarginalFields == {"buyPriceMarginal", "sellPriceMarginal"}
OptionNames == UpdateFields \cup MarginalFields

PlainInputs == {Undefined, Str("1000")}
MarginalInputs == {Undefined, Str(""), Str("RESET"), Str("MAINTAIN"), Str("1.5")}
OptionSets == {o \in [OptionNames -> PlainInputs \cup MarginalInputs] :
                 \A f \in UpdateFields : o[f] \in PlainInputs}
NoOptions == [f \in OptionNames |-> Undefined]

PrivateKeys == {Undefined, Str(""), Str("0xkey")}

RECURSIVE SeqsUpTo(_, _)
SeqsUpTo(S, n) ==
  IF n = 0 THEN {<<>>}
  ELSE LET shorter == SeqsUpTo(S, n - 1)
       IN shorter \cup {Append(s, x) : s \in {q \in shorter : Len(q) = n - 1}, x \in S}

LogTopics == {"ProposalCreated", "Transfer"}
Receipts == {[hasLogs |-> FALSE, logs |-> <<>>]} \cup
            {[hasLogs |-> TRUE, logs |-> l] : l \in SeqsUpTo(LogTopics, MaxLogs)}
NoReceipt == [hasLogs |-> FALSE, logs |-> <<"none">>]

PairLists == SeqsUpTo(Tokens \X Tokens, MaxPairs)

VARIABLES
  env,            \* process.env.PRIVATE_KEY after dotenv.config()
  enumIsString,   \* whether the SDK's MarginalPriceOptions members are the strings "RESET"/"MAINTAIN"
  cmd, argv,      \* the command parsed by program.parse and its arguments
  pc,             \* position in the handler
  session,        \* the module-level api / sdkCache / sdk singletons are assigned
  existingStrategy, strategyUpdate, sdkCall, tx, walletReady, receipt,
  tokenPair,      \* outcome of the get-pair-info lookup
  pairs,          \* list returned by api.reader.pairs()
  broadcasts,     \* transactions handed to the network, in order
  console,        \* console.log / console.error lines, in order
  exitStatus,     \* process exit status
  escaped,        \* an exception left the handler (unhandled rejection)
  failedAt,       \* the site whose call threw, "" when none
  done            \* pipeline steps completed, in order

vars == <<env, enumIsString, cmd, argv, pc, session, existingStrategy, strategyUpdate,
          sdkCall, tx, walletReady, receipt, tokenPair, pairs, broadcasts, console,
          exitStatus, escaped, failedAt, done>>

locals == <<existingStrategy, strategyUpdate, sdkCall, tx, walletReady, receipt,
            tokenPair, pairs>>

\* ---------------------------------------------------------------- control flow
\* The awaited calls and throw sites of each handler, in source order.
Pipeline(c) ==
  CASE c = "init" -> <<"initSDK">>
    [] c = "get-pair-info" -> <<"initSDK", "pairs">>
    [] c = "get-cached-pairs" -> <<"initSDK", "getCachedPairs">>
    [] c = "update-strategy" ->
         <<"initSDK", "getStrategyById", "updateStrategy", "privateKey",
           "sendTransaction", "wait">>
    [] c = "propose-update-strategy" ->
         <<"action", "initSDK", "getStrategyById", "updateStrategy", "privateKey",
           "sendTransaction", "wait", "parseLog">>
    [] c = "transfer-strategy" ->
         <<"initSDK", "getStrategyById", "privateKey", "transferFrom", "wait">>

\* Source line of each site.
SiteLine(c, s) ==
  CASE c = "init" -> 74
    [] c = "get-pair-info" -> IF s = "initSDK" THEN 86 ELSE 87
    [] c = "get-cached-pairs" -> IF s = "initSDK" THEN 107 ELSE 108
    [] c = "update-strategy" ->
         (CASE s = "initSDK" -> 128 [] s = "getStrategyById" -> 130
            [] s = "updateStrategy" -> 155 [] s = "privateKey" -> 168
            [] s = "sendTransaction" -> 181 [] s = "wait" -> 185)
    [] c = "propose-update-strategy" ->
         (CASE s = "action" -> 282 [] s = "initSDK" -> 199 [] s = "getStrategyById" -> 201
            [] s = "updateStrategy" -> 205 [] s = "privateKey" -> 232
            [] s = "sendTransaction" -> 243 [] s = "wait" -> 252
            [] s = "parseLog" -> 257)
    [] c = "transfer-strategy" ->
         (CASE s = "initSDK" -> 296 [] s = "getStrategyById" -> 298
            [] s = "privateKey" -> 304 [] s = "transferFrom" -> 323
            [] s = "wait" -> 328)

\* First and last line of the body of each handler's try block.
TryRange(c) ==
  CASE c = "init" -> <<74, 74>>
    [] c = "get-pair-info" -> <<86, 96>>
    [] c = "get-cached-pairs" -> <<107, 109>>
    [] c = "update-strategy" -> <<128, 187>>
    [] c = "propose-update-strategy" -> <<199, 264>>
    [] c = "transfer-strategy" -> <<296, 330>>

InTry(c, s) == TryRange(c)[1] <= SiteLine(c, s) /\ SiteLine(c, s) <= TryRange(c)[2]

\* The first argument of console.error in each catch block.
CatchMessage(c) ==
  CASE c \in {"init", "get-pair-info", "get-cached-pairs"} -> "Error:"
    [] c = "update-strategy" -> "Error updating strategy:"
    [] c = "propose-update-strategy" -> "Error proposing update strategy:"
    [] c = "transfer-strategy" -> "Error transferring strategy:"

\* Variants of CatchExits: every catch block exits / none does.
CatchExits_Always(c) == TRUE
CatchExits_Never(c) == FALSE

\* Whether the catch block calls process.exit(1).
CatchExits(c) == c = "init"

Log(msg, arg) == [stream |-> "log", msg |-> msg, arg |-> arg]
Err(msg, arg) == [stream |-> "error", msg |-> msg, arg |-> arg]

\* Variant of NextStep that passes over the signing-key check.
NextStep_SkipKeyCheck(c, s) ==
  LET p == SelectSeq(Pipeline(c), LAMBDA x : x # "privateKey")
      i == CHOOSE k \in 1..Len(p) : p[k] = s
  IN IF i = Len(p) THEN "returned" ELSE p[i + 1]

\* The site after s in the handler, "returned" after the last one.
NextStep(c, s) ==
  LET p == Pipeline(c)
      i == CHOOSE k \in 1..Len(p) : p[k] = s
  IN IF i = Len(p) THEN "returned" ELSE p[i + 1]

At(c, s) == cmd = c /\ pc = s

\* A throw at site s: the enclosing catch logs it (and init exits 1); outside
\* any try the rejection is unhandled and the process dies with status 1.
Raise(s, e) ==
  /\ failedAt' = s
  /\ IF InTry(cmd, s)
       THEN /\ console' = Append(console, Err(CatchMessage(cmd), e))
            /\ escaped' = escaped
            /\ IF CatchExits(cmd)
                 THEN exitStatus' = 1 /\ pc' = "exited"
                 ELSE exitStatus' = exitStatus /\ pc' = "returned"
       ELSE /\ console' = console
            /\ escaped' = TRUE
            /\ exitStatus' = 1
            /\ pc' = "crashed"

Init ==
  /\ env \in PrivateKeys
  /\ enumIsString \in BOOLEAN
  /\ cmd = "" /\ argv = [token0 |-> 0, token1 |-> 0, strategyId |-> "", options |-> NoOptions]
  /\ pc = "parse"
  /\ session = "unset"
  /\ existingStrategy = None /\ strategyUpdate = None /\ sdkCall = None /\ tx = None
  /\ walletReady = FALSE /\ receipt = NoReceipt
  /\ tokenPair = None /\ pairs = <<>>
  /\ broadcasts = <<>> /\ console = <<>>
  /\ exitStatus = 0 /\ escaped = FALSE /\ failedAt = "" /\ done = <<>>

\* program.parse(process.argv): commander selects the command and calls its action.
Parse ==
  /\ pc = "parse"
  /\ \E c \in Commands :
       /\ cmd' = c
       /\ pc' = Pipeline(c)[1]
       /\ \/ /\ c \in {"init", "get-cached-pairs"}
             /\ argv' = argv
          \/ /\ c = "get-pair-info"
             /\ \E a \in Tokens, b \in Tokens :
                  argv' = [argv EXCEPT !.token0 = a, !.token1 = b]
          \/ /\ c \in {"update-strategy", "propose-update-strategy"}
             /\ \E id \in StrategyIds, o \in OptionSets :
                  argv' = [argv EXCEPT !.strategyId = id, !.options = o]
          \/ /\ c = "transfer-strategy"
             /\ \E id \in StrategyIds : argv' = [argv EXCEPT !.strategyId = id]
  /\ UNCHANGED <<env, enumIsString, session, locals, broadcasts, console,
                 exitStatus, escaped, failedAt, done>>

\* initSDK(), awaited by every handler.  Construction (provider, ContractsApi,
\* cache, Toolkit) or startDataSync may throw; initSDK has no try block, so the
\* throw reaches the awaiting handler.
InitSDK ==
  /\ pc = "initSDK"
  /\ \E outcome \in {"ok", "construct", "sync"} :
       /\ session' = IF outcome = "construct" THEN session ELSE "assigned"
       /\ IF outcome = "ok"
            THEN /\ console' = Append(console, Log("Carbon SDK initialized successfully", None))
                 /\ pc' = NextStep(cmd, "initSDK")
                 /\ done' = Append(done, "bootstrap")
                 /\ UNCHANGED <<exitStatus, escaped, failedAt>>
            ELSE /\ Raise("initSDK", Str(outcome))
                 /\ done' = done
  /\ UNCHANGED <<env, enumIsString, cmd, argv, locals, broadcasts>>

\* ---------------------------------------------------------------- request construction
\* MarginalPriceOptions is imported from the SDK; the source fixes only that
\* it has the members reset and maintain, not how they are represented.
MarginalPriceOptions ==
  [reset |-> IF enumIsString THEN Str("RESET") ELSE EnumMember("reset"),
   maintain |-> IF enumIsString THEN Str("MAINTAIN") ELSE EnumMember("maintain")]

\* Variant of ResolveMarginal with the two sentinels exchanged.
ResolveMarginal_Swapped(opt) ==
  IF Truthy(opt)
    THEN (IF opt = Str("RESET") THEN MarginalPriceOptions.maintain
          ELSE IF opt = Str("MAINTAIN") THEN MarginalPriceOptions.reset
          ELSE opt)
    ELSE Undefined

\* update-strategy's resolution of one marginal-price option.
ResolveMarginal(opt) ==
  IF Truthy(opt)
    THEN (IF opt = Str("RESET") THEN MarginalPriceOptions.reset
          ELSE IF opt = Str("MAINTAIN") THEN MarginalPriceOptions.maintain
          ELSE opt)
    ELSE Undefined

\* The StrategyUpdate object literal: the six plain options, copied.
BuildStrategyUpdate(o) == [f \in UpdateFields |-> o[f]]

\* The argument list of sdk.updateStrategy.
UpdateStrategyArgs(id, encoded, update, buy, sell) ==
  [strategyId |-> id, encoded |-> encoded, update |-> update,
   buyPriceMarginal |-> buy, sellPriceMarginal |-> sell]

\* What update-strategy hands to sdk.updateStrategy for a strategy and options.
UpdateStrategyCall(strategy, o) ==
  UpdateStrategyArgs(strategy.id, strategy.encoded, BuildStrategyUpdate(o),
                     ResolveMarginal(o.buyPriceMarginal),
                     ResolveMarginal(o.sellPriceMarginal))

\* What proposeUpdateStrategy hands to sdk.updateStrategy: its parameters as
\* received from the command action, which passes the two marginal options as is.
ProposeStrategyCall(strategy, update, o) ==
  UpdateStrategyArgs(strategy.id, strategy.encoded, update,
                     o.buyPriceMarginal, o.sellPriceMarginal)

\* The strategy returned by sdk.getStrategyById.
Strategy(id) == [id |-> id, encoded |-> <<"encoded", id>>]

\* Variant of KeyMissing that never reports a missing key.
KeyMissing_Unchecked(k) == FALSE

\* `!privateKey`
KeyMissing(k) == ~Truthy(k)

\* Variant of Broadcast that sends the transaction a second time.
Broadcast_Twice(bs, t) == Append(Append(bs, t), t)

\* A transaction accepted by the network joins the broadcasts.
Broadcast(bs, t) == Append(bs, t)

\* ---------------------------------------------------------------- update-strategy
U_GetStrategyById ==
  /\ At("update-strategy", "getStrategyById")
  /\ \E ok \in BOOLEAN :
       IF ok
         THEN /\ existingStrategy' = Strategy(argv.strategyId)
              /\ console' = console \o <<Log("Existing strategy:", None),
                                         Log("Strategy encoded:", None)>>
              /\ pc' = NextStep(cmd, pc)
              /\ done' = Append(done, "fetch")
              /\ UNCHANGED <<exitStatus, escaped, failedAt>>
         ELSE /\ Raise(pc, Str("getStrategyById"))
              /\ UNCHANGED <<existingStrategy, done>>
  /\ UNCHANGED <<env, enumIsString, cmd, argv, session, strategyUpdate, sdkCall, tx,
                 walletReady, receipt, tokenPair, pairs, broadcasts>>

U_UpdateStrategy ==
  /\ At("update-strategy", "updateStrategy")
  /\ strategyUpdate' = BuildStrategyUpdate(argv.options)
  /\ sdkCall' = UpdateStrategyCall(existingStrategy, argv.options)
  /\ \E ok \in BOOLEAN :
       IF ok
         THEN /\ tx' = [to |-> CARBON_CONTROLLER, data |-> <<"updateStrategy", sdkCall'>>]
              /\ console' = Append(console, Log("Update strategy transaction:", None))
              /\ pc' = NextStep(cmd, pc)
              /\ done' = done \o <<"construct", "encode">>
              /\ UNCHANGED <<exitStatus, escaped, failedAt>>
         ELSE /\ Raise(pc, Str("updateStrategy"))
              /\ done' = Append(done, "construct")
              /\ tx' = tx
  /\ UNCHANGED <<env, enumIsString, cmd, argv, session, existingStrategy,
                 walletReady, receipt, tokenPair, pairs, broadcasts>>

U_PrivateKey ==
  /\ At("update-strategy", "privateKey")
  /\ IF KeyMissing(env)
       THEN /\ Raise(pc, Str("Private key not found in .env file"))
            /\ UNCHANGED <<walletReady, done>>
       ELSE \E ok \in BOOLEAN :
              IF ok
                THEN /\ walletReady' = TRUE
                     /\ console' = console \o <<Log("Provider created:", None),
                                                Log("Wallet created and connected:", None)>>
                     /\ pc' = NextStep(cmd, pc)
                     /\ done' = Append(done, "keycheck")
                     /\ UNCHANGED <<exitStatus, escaped, failedAt>>
                ELSE /\ Raise(pc, Str("Wallet"))
                     /\ done' = Append(done, "keycheck")
                     /\ walletReady' = walletReady
  /\ UNCHANGED <<env, enumIsString, cmd, argv, session, existingStrategy, strategyUpdate,
                 sdkCall, tx, receipt, tokenPair, pairs, broadcasts>>

U_SendTransaction ==
  /\ At("update-strategy", "sendTransaction")
  /\ \E ok \in BOOLEAN :
       IF ok
         THEN /\ broadcasts' = Broadcast(broadcasts, tx)
              /\ console' = Append(console, Log("Transaction sent:", None))
              /\ pc' = NextStep(cmd, pc)
              /\ done' = done \o <<"sign", "broadcast">>
              /\ UNCHANGED <<exitStatus, escaped, failedAt>>
         ELSE /\ Raise(pc, Str("sendTransaction"))
              /\ UNCHANGED <<broadcasts, done>>
  /\ UNCHANGED <<env, enumIsString, cmd, argv, session, locals>>

U_Wait ==
  /\ At("update-strategy", "wait")
  /\ \E ok \in BOOLEAN :
       IF ok
         THEN /\ \E r \in Receipts : receipt' = r
              /\ console' = Append(console, Log("Transaction receipt:", None))
              /\ pc' = NextStep(cmd, pc)
              /\ done' = done \o <<"confirm", "report">>
              /\ UNCHANGED <<exitStatus, escaped, failedAt>>
         ELSE /\ Raise(pc, Str("wait"))
              /\ UNCHANGED <<receipt, done>>
  /\ UNCHANGED <<env, enumIsString, cmd, argv, session, existingStrategy, strategyUpdate,
                 sdkCall, tx, walletReady, tokenPair, pairs, broadcasts>>

UpdateStrategy ==
  U_GetStrategyById \/ U_UpdateStrategy \/ U_PrivateKey \/ U_SendTransaction \/ U_Wait

\* ---------------------------------------------------------------- propose-update-strategy
\* Events declared by the ABI given to governorInterface: the one fragment is
\* the function propose, so the interface knows no event.
GovernorEvents == {}

\* governorInterface.parseLog(log) resolves the log's topic among the
\* interface's events and throws when none matches.
ParseLogThrows(log) == log \notin GovernorEvents

\* receipt.logs?.find(log => parseLog(log).name === 'ProposalCreated'):
\* the index of the first match, 0 when none, or the callback threw.
RECURSIVE FindProposalCreated(_, _)
FindProposalCreated(logs, i) ==
  IF i > Len(logs) THEN [threw |-> FALSE, index |-> 0]
  ELSE IF ParseLogThrows(logs[i]) THEN [threw |-> TRUE, index |-> i]
  ELSE IF logs[i] = "ProposalCreated" THEN [threw |-> FALSE, index |-> i]
  ELSE FindProposalCreated(logs, i + 1)

ScanReceipt(r) ==
  IF r.hasLogs THEN FindProposalCreated(r.logs, 1) ELSE [threw |-> FALSE, index |-> 0]

\* The transaction request passed to wallet.sendTransaction.
ProposalTx(governorAddress, id, inner) ==
  [to |-> governorAddress,
   data |-> <<"propose", <<CARBON_CONTROLLER>>, <<0>>, <<inner.data>>, <<"Update strategy", id>>>>,
   gasLimit |-> GAS_LIMIT]

\* The command action: builds the StrategyUpdate, then calls proposeUpdateStrategy.
P_Action ==
  /\ At("propose-update-strategy", "action")
  /\ strategyUpdate' = BuildStrategyUpdate(argv.options)
  /\ done' = Append(done, "construct")
  /\ pc' = NextStep(cmd, pc)
  /\ UNCHANGED <<env, enumIsString, cmd, argv, session, existingStrategy, sdkCall, tx,
                 walletReady, receipt, tokenPair, pairs, broadcasts, console,
                 exitStatus, escaped, failedAt>>

P_GetStrategyById ==
  /\ At("propose-update-strategy", "getStrategyById")
  /\ \E ok \in BOOLEAN :
       IF ok
         THEN /\ existingStrategy' = Strategy(argv.strategyId)
              /\ console' = Append(console, Log("Existing strategy:", None))
              /\ pc' = NextStep(cmd, pc)
              /\ done' = Append(done, "fetch")
              /\ UNCHANGED <<exitStatus, escaped, failedAt>>
         ELSE /\ Raise(pc, Str("getStrategyById"))
              /\ UNCHANGED <<existingStrategy, done>>
  /\ UNCHANGED <<env, enumIsString, cmd, argv, session, strategyUpdate, sdkCall, tx,
                 walletReady, receipt, tokenPair, pairs, broadcasts>>

\* sdk.updateStrategy, then governorInterface.encodeFunctionData("propose", ...).
P_UpdateStrategy ==
  /\ At("propose-update-strategy", "updateStrategy")
  /\ sdkCall' = ProposeStrategyCall(existingStrategy, strategyUpdate, argv.options)
  /\ \E ok \in BOOLEAN :
       IF ok
         THEN /\ tx' = ProposalTx(GOVERNOR_ADDRESS, argv.strategyId,
                                  [to |-> CARBON_CONTROLLER,
                                   data |-> <<"updateStrategy", sdkCall'>>])
              /\ pc' = NextStep(cmd, pc)
              /\ done' = Append(done, "encode")
              /\ UNCHANGED <<console, exitStatus, escaped, failedAt>>
         ELSE /\ Raise(pc, Str("updateStrategy"))
              /\ UNCHANGED <<tx, done>>
  /\ UNCHANGED <<env, enumIsString, cmd, argv, session, existingStrategy, strategyUpdate,
                 walletReady, receipt, tokenPair, pairs, broadcasts>>

P_PrivateKey ==
  /\ At("propose-update-strategy", "privateKey")
  /\ IF KeyMissing(env)
       THEN /\ Raise(pc, Str("Private key not found in .env file"))
            /\ UNCHANGED <<walletReady, done>>
       ELSE \E ok \in BOOLEAN :
              IF ok
                THEN /\ walletReady' = TRUE
                     /\ pc' = NextStep(cmd, pc)
                     /\ done' = Append(done, "keycheck")
                     /\ UNCHANGED <<console, exitStatus, escaped, failedAt>>
                ELSE /\ Raise(pc, Str("Wallet"))
                     /\ done' = Append(done, "keycheck")
                     /\ walletReady' = walletReady
  /\ UNCHANGED <<env, enumIsString, cmd, argv, session, existingStrategy, strategyUpdate,
                 sdkCall, tx, receipt, tokenPair, pairs, broadcasts>>

P_SendTransaction ==
  /\ At("propose-update-strategy", "sendTransaction")
  /\ \E ok \in BOOLEAN :
       IF ok
         THEN /\ broadcasts' = Broadcast(broadcasts, tx)
              /\ console' = Append(console, Log("Proposal transaction sent:", None))
              /\ pc' = NextStep(cmd, pc)
              /\ done' = done \o <<"sign", "broadcast">>
              /\ UNCHANGED <<exitStatus, escaped, failedAt>>
         ELSE /\ Raise(pc, Str("sendTransaction"))
              /\ UNCHANGED <<broadcasts, done>>
  /\ UNCHANGED <<env, enumIsString, cmd, argv, session, locals>>

P_Wait ==
  /\ At("propose-update-strategy", "wait")
  /\ \E ok \in BOOLEAN :
       IF ok
         THEN /\ \E r \in Receipts : receipt' = r
              /\ console' = Append(console, Log("Proposal transaction receipt:", None))
              /\ pc' = NextStep(cmd, pc)
              /\ done' = done \o <<"confirm", "report">>
              /\ UNCHANGED <<exitStatus, escaped, failedAt>>
         ELSE /\ Raise(pc, Str("wait"))
              /\ UNCHANGED <<receipt, done>>
  /\ UNCHANGED <<env, enumIsString, cmd, argv, session, existingStrategy, strategyUpdate,
                 sdkCall, tx, walletReady, tokenPair, pairs, broadcasts>>

\* The scan of receipt.logs for the ProposalCreated event.
P_ParseLog ==
  /\ At("propose-update-strategy", "parseLog")
  /\ LET found == ScanReceipt(receipt)
     IN IF found.threw
          THEN Raise(pc, Str("no matching event"))
          ELSE /\ console' = IF found.index > 0
                               THEN Append(console, Log("Proposal ID:", Str("proposalId")))
                               ELSE console
               /\ pc' = NextStep(cmd, pc)
               /\ UNCHANGED <<exitStatus, escaped, failedAt>>
  /\ UNCHANGED <<env, enumIsString, cmd, argv, session, locals, broadcasts, done>>

ProposeUpdateStrategy ==
  \/ P_Action \/ P_GetStrategyById \/ P_UpdateStrategy \/ P_PrivateKey
  \/ P_SendTransaction \/ P_Wait \/ P_ParseLog

\* ---------------------------------------------------------------- transfer-strategy
\* Variant of TransferFromTx whose destination is the governor.
TransferFromTx_ToGovernor(from, id) ==
  [to |-> VOUCHER_ADDRESS,
   data |-> <<"transferFrom", from, GOVERNOR_ADDRESS, id>>,
   gasLimit |-> GAS_LIMIT]

\* voucherContract.transferFrom(wallet.address, TIMELOCK_ADDRESS, strategyId, {gasLimit})
TransferFromTx(from, id) ==
  [to |-> VOUCHER_ADDRESS,
   data |-> <<"transferFrom", from, TIMELOCK_ADDRESS, id>>,
   gasLimit |-> GAS_LIMIT]

T_GetStrategyById ==
  /\ At("transfer-strategy", "getStrategyById")
  /\ \E ok \in BOOLEAN :
       IF ok
         THEN /\ existingStrategy' = Strategy(argv.strategyId)
              /\ console' = Append(console, Log("Existing strategy:", None))
              /\ pc' = NextStep(cmd, pc)
              /\ done' = Append(done, "fetch")
              /\ UNCHANGED <<exitStatus, escaped, failedAt>>
         ELSE /\ Raise(pc, Str("getStrategyById"))
              /\ UNCHANGED <<existingStrategy, done>>
  /\ UNCHANGED <<env, enumIsString, cmd, argv, session, strategyUpdate, sdkCall, tx,
                 walletReady, receipt, tokenPair, pairs, broadcasts>>

T_PrivateKey ==
  /\ At("transfer-strategy", "privateKey")
  /\ IF KeyMissing(env)
       THEN /\ Raise(pc, Str("Private key not found in .env file"))
            /\ UNCHANGED <<walletReady, done>>
       ELSE \E ok \in BOOLEAN :
              IF ok
                THEN /\ walletReady' = TRUE
                     /\ pc' = NextStep(cmd, pc)
                     /\ done' = Append(done, "keycheck")
                     /\ UNCHANGED <<console, exitStatus, escaped, failedAt>>
                ELSE /\ Raise(pc, Str("Wallet"))
                     /\ done' = Append(done, "keycheck")
                     /\ walletReady' = walletReady
  /\ UNCHANGED <<env, enumIsString, cmd, argv, session, existingStrategy, strategyUpdate,
                 sdkCall, tx, receipt, tokenPair, pairs, broadcasts>>

\* The contract call encodes the calldata, signs and sends in one await.
T_TransferFrom ==
  /\ At("transfer-strategy", "transferFrom")
  /\ \E outcome \in {"ok", "encode", "send"} :
       IF outcome = "ok"
         THEN /\ tx' = TransferFromTx("wallet.address", argv.strategyId)
              /\ broadcasts' = Broadcast(broadcasts, tx')
              /\ console' = Append(console, Log("Transfer strategy transaction sent:", None))
              /\ pc' = NextStep(cmd, pc)
              /\ done' = done \o <<"encode", "sign", "broadcast">>
              /\ UNCHANGED <<exitStatus, escaped, failedAt>>
         ELSE /\ Raise(pc, Str(outcome))
              /\ done' = IF outcome = "send" THEN Append(done, "encode") ELSE done
              /\ UNCHANGED <<tx, broadcasts>>
  /\ UNCHANGED <<env, enumIsString, cmd, argv, session, existingStrategy, strategyUpdate,
                 sdkCall, walletReady, receipt, tokenPair, pairs>>

T_Wait ==
  /\ At("transfer-strategy", "wait")
  /\ \E ok \in BOOLEAN :
       IF ok
         THEN /\ \E r \in Receipts : receipt' = r
              /\ console' = Append(console, Log("Transfer strategy transaction receipt:", None))
              /\ pc' = NextStep(cmd, pc)
              /\ done' = done \o <<"confirm", "report">>
              /\ UNCHANGED <<exitStatus, escaped, failedAt>>
         ELSE /\ Raise(pc, Str("wait"))
              /\ UNCHANGED <<receipt, done>>
  /\ UNCHANGED <<env, enumIsString, cmd, argv, session, existingStrategy, strategyUpdate,
                 sdkCall, tx, walletReady, tokenPair, pairs, broadcasts>>

TransferStrategy == T_GetStrategyById \/ T_PrivateKey \/ T_TransferFrom \/ T_Wait

\* ---------------------------------------------------------------- read-only commands
\* Variant of PairMatches that accepts only the order given.
PairMatches_Ordered(pair, token0, token1) == pair[1] = token0 /\ pair[2] = token1

\* The predicate given to pairs.find.
PairMatches(pair, token0, token1) ==
  \/ (pair[1] = token0 /\ pair[2] = token1)
  \/ (pair[1] = token1 /\ pair[2] = token0)

\* Array.prototype.find: the first element satisfying the predicate, or undefined.
FindPair(l, token0, token1) ==
  LET hits == {i \in 1..Len(l) : PairMatches(l[i], token0, token1)}
  IN IF hits = {} THEN [found |-> FALSE, pair |-> <<0, 0>>]
     ELSE [found |-> TRUE, pair |-> l[CHOOSE i \in hits : \A j \in hits : i <= j]]

G_Pairs ==
  /\ At("get-pair-info", "pairs")
  /\ \E ok \in BOOLEAN :
       IF ok
         THEN \E l \in PairLists :
                /\ pairs' = l
                /\ tokenPair' = FindPair(l, argv.token0, argv.token1)
                /\ console' = Append(console,
                                IF tokenPair'.found
                                  THEN Log("Token Pair Info:", tokenPair')
                                  ELSE Log("Token Pair not found", None))
                /\ pc' = NextStep(cmd, pc)
                /\ UNCHANGED <<exitStatus, escaped, failedAt>>
         ELSE /\ Raise(pc, Str("pairs"))
              /\ UNCHANGED <<pairs, tokenPair>>
  /\ UNCHANGED <<env, enumIsString, cmd, argv, session, existingStrategy, strategyUpdate,
                 sdkCall, tx, walletReady, receipt, broadcasts, done>>

C_GetCachedPairs ==
  /\ At("get-cached-pairs", "getCachedPairs")
  /\ \E ok \in BOOLEAN :
       IF ok
         THEN /\ console' = Append(console, Log("Cached Pairs:", None))
              /\ pc' = NextStep(cmd, pc)
              /\ UNCHANGED <<exitStatus, escaped, failedAt>>
         ELSE Raise(pc, Str("getCachedPairs"))
  /\ UNCHANGED <<env, enumIsString, cmd, argv, session, locals, broadcasts, done>>

Next ==
  \/ Parse \/ InitSDK \/ UpdateStrategy \/ ProposeUpdateStrategy \/ TransferStrategy
  \/ G_Pairs \/ C_GetCachedPairs

Spec == Init /\ [][Next]_vars

\* ---------------------------------------------------------------- properties
SeqRange(q) == {q[i] : i \in DOMAIN q}
ErrorLines == {i \in DOMAIN console : console[i].stream = "error"}
Terminal == pc \in {"returned", "exited", "crashed"}
\* The handler's catch block logged as its last act.
CaughtAndLogged ==
  /\ console # <<>>
  /\ console[Len(console)].stream = "error"
  /\ console[Len(console)].msg = CatchMessage(cmd)
  /\ ~escaped
IsPrefix(p, q) == Len(p) <= Len(q) /\ \A i \in DOMAIN p : p[i] = q[i]

\* C1: in a signing command run without PRIVATE_KEY nothing is ever broadcast,
\* no exception leaves the handler, and the handler returns only after its
\* catch block logged the failure.
C1_MissingKeyNoBroadcast ==
  (cmd \in SigningCommands /\ env = Undefined) =>
    /\ broadcasts = <<>>
    /\ ~escaped /\ pc # "crashed" /\ exitStatus = 0
    /\ pc = "returned" => CaughtAndLogged

C1_Witness ==
  /\ cmd \in SigningCommands /\ env = Undefined
  /\ failedAt = "privateKey" /\ pc = "returned"

\* C2: a signing command broadcasts at most one transaction, exactly one when
\* no step failed; a failed broadcast or confirmation wait is caught and logged
\* and the handler returns with no further broadcast.
C2_AtMostOneBroadcast ==
  cmd \in SigningCommands =>
    /\ Len(broadcasts) <= 1
    /\ (pc = "returned" /\ failedAt = "") => Len(broadcasts) = 1
    /\ failedAt \in {"sendTransaction", "transferFrom"} =>
         (pc = "returned" /\ CaughtAndLogged /\ broadcasts = <<>>)
    /\ failedAt = "wait" =>
         (pc = "returned" /\ CaughtAndLogged /\ Len(broadcasts) = 1)

C2_Witness ==
  cmd \in SigningCommands /\ failedAt = "wait" /\ pc = "returned" /\ Len(broadcasts) = 1

\* C3: update-strategy hands each marginal-price option to sdk.updateStrategy as
\* the reset sentinel for "RESET", the maintain sentinel for "MAINTAIN", itself
\* for any other non-empty string, and undefined when absent.
C3_MarginalResolution ==
  (cmd = "update-strategy" /\ sdkCall # None) =>
    \A f \in MarginalFields :
      LET o == argv.options[f]
          r == sdkCall[f]
      IN /\ o = Str("RESET") => r = MarginalPriceOptions.reset
         /\ o = Str("MAINTAIN") => r = MarginalPriceOptions.maintain
         /\ (o.t = "string" /\ o.v \notin {"", "RESET", "MAINTAIN"}) => r = o
         /\ o = Undefined => r = Undefined

C3_Witness ==
  /\ cmd = "update-strategy" /\ sdkCall # None
  /\ argv.options.buyPriceMarginal = Str("RESET")
  /\ argv.options.sellPriceMarginal = Str("1.5")
  /\ sdkCall.buyPriceMarginal = MarginalPriceOptions.reset

\* C4: propose-update-strategy passes to sdk.updateStrategy the update object
\* and the two resolved marginal prices that update-strategy passes for the
\* same strategy and options.
C4_ProposeSameRequest ==
  (cmd = "propose-update-strategy" /\ sdkCall # None) =>
    sdkCall = UpdateStrategyCall(existingStrategy, argv.options)

\* C5: the process exits with status 1 only when init fails; an error in any
\* other command is caught and logged and the exit status stays 0.
C5_ExitOnlyOnInit ==
  /\ exitStatus = 1 => (cmd = "init" /\ failedAt = "initSDK")
  /\ (cmd \in Commands \ {"init"} /\ failedAt # "") =>
       (pc = "returned" /\ CaughtAndLogged /\ exitStatus = 0)

C5_Witness ==
  cmd = "get-cached-pairs" /\ failedAt # "" /\ pc = "returned" /\ exitStatus = 0

\* C6 as stated: whenever initSDK fails, in whichever command, the handler logs
\* the failure and the process terminates with a non-zero status.
C6_InitFailureExits ==
  failedAt = "initSDK" => (CaughtAndLogged /\ pc = "exited" /\ exitStatus = 1)

\* C6 amended: a failure of initSDK reaches the awaiting handler, whose catch
\* logs it; the process terminates with status 1 when the command is init, and
\* in every other command the handler returns with exit status 0.
C6_InitFailureCaught ==
  failedAt = "initSDK" =>
    /\ CaughtAndLogged
    /\ IF cmd = "init" THEN pc = "exited" /\ exitStatus = 1
                       ELSE pc = "returned" /\ exitStatus = 0

C6_Witness ==
  cmd = "transfer-strategy" /\ failedAt = "initSDK" /\ pc = "returned" /\ session = "assigned"

\* C7: after a confirmed proposal, the proposal id is reported when the receipt
\* has a ProposalCreated log; when it has none, nothing is reported and no
\* error is raised or logged.
C7_ProposalIdReported ==
  (cmd = "propose-update-strategy" /\ Terminal /\ "report" \in SeqRange(done)) =>
    LET present == receipt.hasLogs /\ "ProposalCreated" \in SeqRange(receipt.logs)
        reported == \E i \in DOMAIN console : console[i].msg = "Proposal ID:"
    IN /\ present => reported
       /\ ~present => (~reported /\ ErrorLines = {} /\ failedAt = "")

\* C8: get-pair-info a b and get-pair-info b a report the same outcome for the
\* same list of pairs.
C8_OrderIndependentLookup ==
  (cmd = "get-pair-info" /\ pc = "returned" /\ failedAt = "") =>
    tokenPair = FindPair(pairs, argv.token1, argv.token0)

C8_Witness ==
  /\ cmd = "get-pair-info" /\ pc = "returned" /\ failedAt = ""
  /\ argv.token0 # argv.token1
  /\ tokenPair.found /\ tokenPair.pair = <<argv.token1, argv.token0>>

\* C9: every transaction transfer-strategy broadcasts is a transferFrom on the
\* voucher contract to the timelock address for the supplied strategy id.
C9_TransferTargetsTimelock ==
  cmd = "transfer-strategy" =>
    \A i \in DOMAIN broadcasts :
      /\ broadcasts[i].to = VOUCHER_ADDRESS
      /\ broadcasts[i].data[1] = "transferFrom"
      /\ broadcasts[i].data[3] = TIMELOCK_ADDRESS
      /\ broadcasts[i].data[4] = argv.strategyId

C9_Witness ==
  cmd = "transfer-strategy" /\ Len(broadcasts) = 1 /\ argv.strategyId = "7"

\* The steps a handler has (transfer-strategy builds no update request).
StepsOf(c) ==
  IF c = "transfer-strategy"
    THEN {"bootstrap", "fetch", "encode", "sign", "broadcast", "confirm", "report"}
    ELSE {"bootstrap", "fetch", "construct", "encode", "sign", "broadcast", "confirm", "report"}
InSteps(x) == x \in StepsOf(cmd)
NotKeyCheck(x) == x # "keycheck"
ClaimedOrder ==
  <<"bootstrap", "fetch", "construct", "encode", "sign", "broadcast", "confirm", "report">>
ActualOrder ==
  IF cmd = "propose-update-strategy"
    THEN <<"construct", "bootstrap", "fetch", "encode", "sign", "broadcast", "confirm", "report">>
    ELSE ClaimedOrder
\* What the pipeline guarantees whatever the order of its first steps.
PipelineGuards ==
  /\ "broadcast" \in SeqRange(done) =>
       {"bootstrap", "fetch", "encode", "keycheck"} \subseteq SeqRange(done)
  /\ "report" \in SeqRange(done) => "confirm" \in SeqRange(done)
  /\ (broadcasts # <<>>) = ("broadcast" \in SeqRange(done))
  /\ Cardinality(ErrorLines) <= 1
  /\ failedAt # "" => (Terminal /\ Cardinality(ErrorLines) = 1)

\* C10 as stated: the steps a signing handler has completed are an initial part
\* of bootstrap, fetch, construct, encode, sign, broadcast, confirm, report; a
\* failure ends the handler with one logged error.
C10_ClaimedPipeline ==
  cmd \in SigningCommands =>
    /\ IsPrefix(SelectSeq(done, NotKeyCheck), SelectSeq(ClaimedOrder, InSteps))
    /\ PipelineGuards

\* C10 amended: as stated, except that propose-update-strategy constructs its
\* update request first, before bootstrap.
C10_LinearPipeline ==
  cmd \in SigningCommands =>
    /\ IsPrefix(SelectSeq(done, NotKeyCheck), SelectSeq(ActualOrder, InSteps))
    /\ PipelineGuards

C10_Witness ==
  /\ cmd = "propose-update-strategy" /\ failedAt = "initSDK"
  /\ done = <<"construct">> /\ broadcasts = <<>>
====
